---- MODULE Spec2Model ----
(***************************************************************************)
(* catr (src/lib.rs): get_args builds a Config from the command line, run  *)
(* walks config.files, opens each one, and pushes every line through the   *)
(* pipeline  squeeze -> show_tabs -> show_ends -> show_nonprinting ->      *)
(* numbering, printing it with println!.                                   *)
(*                                                                         *)
(* Text is modelled as sequences of Unicode code points (a Rust String is  *)
(* a sequence of chars); file names and error descriptions are strings.    *)
(***************************************************************************)
EXTENDS Integers, Sequences, FiniteSets, TLC

VARIABLES
    args,          \* the command line: [opts : set of option ids, files : positional values]
    fs,            \* the file system: name -> [open : error description or "ok", items : line results]
    stdin,         \* what standard input delivers: a sequence of line results
    stdin_eof,     \* standard input has been read to its end
    config,        \* the Config get_args returns
    pc,            \* "args", "open" (head of the files loop), "lines" (inside the lines loop), "done"
    i,             \* position of the files loop in config.files (1-based)
    rest,          \* what file.lines() has not yielded yet
    line_num,      \* the enumerate() counter of the lines loop
    last_num,      \* let mut last_num
    blank_appear,  \* let mut blank_appear
    stdout,        \* the lines printed by println!, each a sequence of code points
    stderr,        \* the lines printed by eprintln!, each a string
    result,        \* what the program ends with: "none" while running, "Ok", "Err", "Usage"
    src,           \* history: for each line of stdout, the input line it came from
    attempts       \* history: the names open() was called with, in order

vars == <<args, fs, stdin, stdin_eof, config, pc, i, rest, line_num, last_num,
          blank_appear, stdout, stderr, result, src, attempts>>

(***************************************************************************)
(* Bounds of the model.                                                    *)
(***************************************************************************)
MaxLen == 2        \* longest line of the character-level inputs
MaxLines == 4      \* most lines in a file of the line-level inputs
MaxFiles == 2      \* most positional arguments of the multi-file inputs
LongFile == 11     \* lines of the long file (line numbers of more than one digit)

(***************************************************************************)
(* Code points.                                                            *)
(***************************************************************************)
TAB == 9
SPACE == 32
DOLLAR == 36
CARET == 94

\* Representative code points: NUL, the edges of the caret range, TAB, the
\* edges of the printable range, '$', 'A', DEL, the edges of 0x80..0xFF and
\* the first code point above it.
Chars == {0, 1, TAB, 30, 31, SPACE, DOLLAR, 65, 126, 127, 128, 255, 256}

RECURSIVE Digits(_)
\* u32/usize Display: the decimal numeral of n
Digits(n) == IF n < 10 THEN <<48 + n>> ELSE Digits(n \div 10) \o <<48 + (n % 10)>>

RECURSIVE PadLeft(_, _)
PadLeft(w, s) == IF Len(s) >= w THEN s ELSE PadLeft(w, <<SPACE>> \o s)

\* format!("{:6}", n): a number is right-aligned in a field of at least 6
Format6(n) == PadLeft(6, Digits(n))

RECURSIVE Flatten(_)
\* Iterator<Item = String>::collect::<String>()
Flatten(ss) == IF ss = <<>> THEN <<>> ELSE Head(ss) \o Flatten(Tail(ss))

(***************************************************************************)
(* The per-line transformations of run.                                    *)
(***************************************************************************)
\* line.replace("\t", "^I")
ShowTabs(line) ==
    Flatten([k \in 1..Len(line) |->
                IF line[k] = TAB THEN <<CARET, 73>> ELSE <<line[k]>>])

\* line.push_str("$")
ShowEnds(line) == line \o <<DOLLAR>>

\* A mis-typed upper edge of the caret range ('\x2E' for '\x1E').
NonprintingCharWide(c) ==
    IF c \in 1..46 THEN <<CARET, c + 64>>
    ELSE IF c = 127 THEN <<CARET, 63>>
    ELSE IF c \in 128..255 THEN <<77, 45>> \o Digits(c)
    ELSE <<c>>

\* An off-by-one upper edge of the caret range ('\x1F' for '\x1E').
NonprintingCharOffByOne(c) ==
    IF c \in 1..31 THEN <<CARET, c + 64>>
    ELSE IF c = 127 THEN <<CARET, 63>>
    ELSE IF c \in 128..255 THEN <<77, 45>> \o Digits(c)
    ELSE <<c>>

\* the match of the closure passed to map
NonprintingChar(c) ==
    IF c \in 1..30 THEN <<CARET, c + 64>>
    ELSE IF c = 127 THEN <<CARET, 63>>
    ELSE IF c \in 128..255 THEN <<77, 45>> \o Digits(c)
    ELSE <<c>>

\* line.chars().map(..).collect()
ShowNonprinting(line) == Flatten([k \in 1..Len(line) |-> NonprintingChar(line[k])])

\* lines 43-68: the line after the three optional rewrites
Transform(cfg, line) ==
    LET t == IF cfg.show_tabs THEN ShowTabs(line) ELSE line
        e == IF cfg.show_ends THEN ShowEnds(t) ELSE t
    IN  IF cfg.show_nonprinting THEN ShowNonprinting(e) ELSE e

\* 0-based numbering (line_num for line_num + 1).
OrdinalZeroBased(n) == n

\* line_num + 1
Ordinal(n) == n + 1

\* lines 70-81: what println! writes for the transformed line, and the new last_num
Emit(cfg, n, last, line) ==
    IF cfg.number_lines
    THEN [text |-> Format6(Ordinal(n)) \o <<TAB>> \o line, last |-> last]
    ELSE IF cfg.number_nonblank_lines
    THEN IF line = <<>>
         THEN [text |-> <<>>, last |-> last]
         ELSE [text |-> Format6(last + 1) \o <<TAB>> \o line, last |-> last + 1]
    ELSE [text |-> line, last |-> last]

(***************************************************************************)
(* get_args.                                                               *)
(***************************************************************************)
Options == {"show_all", "number_nonblank", "vE", "show_ends", "number",
            "squeeze_blank", "vT", "show_tabs", "ignored", "show_nonprinting"}

\* show_ends forgets show_all.
ConfigOfForgetsShowAll(a) ==
    [files |-> IF a.files = <<>> THEN <<"-">> ELSE a.files,
     number_lines |-> "number" \in a.opts,
     number_nonblank_lines |-> "number_nonblank" \in a.opts,
     show_tabs |-> a.opts \cap {"show_tabs", "show_all", "vT"} # {},
     show_ends |-> a.opts \cap {"show_ends", "vE"} # {},
     show_nonprinting |-> a.opts \cap {"show_nonprinting", "show_all", "vE", "vT"} # {},
     squeeze_blank |-> "squeeze_blank" \in a.opts]

\* Ok(Config { .. }) with default_value("-") for files
ConfigOf(a) ==
    [files |-> IF a.files = <<>> THEN <<"-">> ELSE a.files,
     number_lines |-> "number" \in a.opts,
     number_nonblank_lines |-> "number_nonblank" \in a.opts,
     show_tabs |-> a.opts \cap {"show_tabs", "show_all", "vT"} # {},
     show_ends |-> a.opts \cap {"show_ends", "show_all", "vE"} # {},
     show_nonprinting |-> a.opts \cap {"show_nonprinting", "show_all", "vE", "vT"} # {},
     squeeze_blank |-> "squeeze_blank" \in a.opts]

\* conflicts_with("number_nonblank")
Conflict(a) == {"number", "number_nonblank"} \subseteq a.opts

NoConfig == ConfigOf([opts |-> {}, files |-> <<>>])

(***************************************************************************)
(* open.                                                                   *)
(***************************************************************************)
\* "-" is standard input and always opens; anything else is File::open
OpenError(name) == IF name = "-" THEN "ok" ELSE fs[name].open

\* the lines a successful open will deliver
Stream(name) ==
    IF name = "-" THEN (IF stdin_eof THEN <<>> ELSE stdin) ELSE fs[name].items

Line(t) == [err |-> FALSE, text |-> t]
ReadError == [err |-> TRUE, text |-> <<>>]

(***************************************************************************)
(* Inputs.                                                                 *)
(***************************************************************************)
RECURSIVE SeqsUpTo(_, _)
\* all sequences over S of length at most n
SeqsUpTo(S, n) ==
    IF n = 0 THEN {<<>>}
    ELSE LET shorter == SeqsUpTo(S, n - 1)
         IN  shorter \cup {<<x>> \o s : x \in S, s \in {t \in shorter : Len(t) = n - 1}}

Missing == "No such file or directory (os error 2)"
Denied == "Permission denied (os error 13)"

File(items) == [open |-> "ok", items |-> items]

A == <<65>>

\* a file system with one readable file "f" holding `items`
OneFile(items) ==
    [name \in {"f", "g", "nofile", "secret"} |->
        IF name = "f" THEN File(items)
        ELSE IF name = "g" THEN File(<<Line(<<>>), Line(<<>>), Line(A)>>)
        ELSE IF name = "nofile" THEN [open |-> Missing, items |-> <<>>]
        ELSE [open |-> Denied, items |-> <<>>]]

\* one file of one line over Chars, every combination of the rewrites and of the numbering
InitChars ==
    /\ \E t \in SeqsUpTo(Chars, MaxLen) : fs = OneFile(<<Line(t)>>)
    /\ \E o \in SUBSET {"show_tabs", "show_ends", "show_nonprinting"},
          n \in {{}, {"number"}, {"number_nonblank"}} :
          args = [opts |-> o \cup n, files |-> <<"f">>]
    /\ stdin = <<>>

\* one file of empty and non-empty lines, squeezing and numbering
InitLines ==
    /\ \E ls \in SeqsUpTo({Line(<<>>), Line(A)}, MaxLines) : fs = OneFile(ls)
    /\ \E o \in SUBSET {"squeeze_blank", "show_ends"},
          n \in {{}, {"number"}, {"number_nonblank"}} :
          args = [opts |-> o \cup n, files |-> <<"f">>]
    /\ stdin = <<>>

\* every set of options, on a file with a tab, a control character and blank lines
InitOptions ==
    /\ fs = OneFile(<<Line(<<65, TAB, 1>>), Line(<<>>), Line(<<>>)>>)
    /\ \E o \in SUBSET Options : args = [opts |-> o, files |-> <<"f">>]
    /\ stdin = <<>>

\* several inputs: readable files, files that do not open, standard input, read errors
InitFiles ==
    /\ \E items \in {<<Line(A)>>, <<Line(A), ReadError, Line(A)>>} : fs = OneFile(items)
    /\ \E fl \in SeqsUpTo({"f", "g", "nofile", "secret", "-"}, MaxFiles),
          o \in {{}, {"number"}, {"squeeze_blank"}, {"number", "squeeze_blank"}} :
          args = [opts |-> o, files |-> fl]
    /\ stdin \in {<<Line(<<66>>)>>, <<Line(<<66>>), ReadError>>}

\* one long file, so that the numbers printed grow past one digit
InitLong ==
    /\ fs = OneFile([k \in 1..LongFile |-> IF k % 3 = 0 THEN Line(<<>>) ELSE Line(A)])
    /\ \E o \in {{"number"}, {"number_nonblank"}, {"number", "squeeze_blank"}} :
          args = [opts |-> o, files |-> <<"f">>]
    /\ stdin = <<>>

Init ==
    /\ InitChars \/ InitLines \/ InitOptions \/ InitFiles \/ InitLong
    /\ stdin_eof = FALSE
    /\ config = NoConfig
    /\ pc = "args"
    /\ i = 1
    /\ rest = <<>>
    /\ line_num = 0
    /\ last_num = 0
    /\ blank_appear = FALSE
    /\ stdout = <<>>
    /\ stderr = <<>>
    /\ result = "none"
    /\ src = <<>>
    /\ attempts = <<>>

(***************************************************************************)
(* Actions.                                                                *)
(***************************************************************************)
inputs == <<args, fs, stdin>>
loopvars == <<rest, line_num, last_num, blank_appear>>

\* get_args succeeds: main hands the Config to run
GetArgs ==
    /\ pc = "args"
    /\ ~Conflict(args)
    /\ config' = ConfigOf(args)
    /\ pc' = "open"
    /\ UNCHANGED <<inputs, stdin_eof, i, loopvars, stdout, stderr, result, src, attempts>>

\* clap rejects -n together with -b and exits
GetArgsConflict ==
    /\ pc = "args"
    /\ Conflict(args)
    /\ pc' = "done"
    /\ result' = "Usage"
    /\ UNCHANGED <<inputs, stdin_eof, config, i, loopvars, stdout, stderr, src, attempts>>

\* open(&filename) is Ok: the per-file state is initialised
OpenOk ==
    /\ pc = "open"
    /\ i <= Len(config.files)
    /\ OpenError(config.files[i]) = "ok"
    /\ rest' = Stream(config.files[i])
    /\ line_num' = 0
    /\ last_num' = 0
    /\ blank_appear' = FALSE
    /\ attempts' = Append(attempts, config.files[i])
    /\ pc' = "lines"
    /\ UNCHANGED <<inputs, stdin_eof, config, i, stdout, stderr, result, src>>

\* The failure to open ends the run.
OpenErrAborts ==
    /\ pc = "open"
    /\ i <= Len(config.files)
    /\ OpenError(config.files[i]) # "ok"
    /\ stderr' = Append(stderr, config.files[i] \o ": " \o OpenError(config.files[i]))
    /\ attempts' = Append(attempts, config.files[i])
    /\ pc' = "done"
    /\ result' = "Ok"
    /\ UNCHANGED <<inputs, stdin_eof, config, i, loopvars, stdout, src>>

\* open(&filename) is Err: eprintln!("{filename}: {err}"); continue
OpenErr ==
    /\ pc = "open"
    /\ i <= Len(config.files)
    /\ OpenError(config.files[i]) # "ok"
    /\ stderr' = Append(stderr, config.files[i] \o ": " \o OpenError(config.files[i]))
    /\ attempts' = Append(attempts, config.files[i])
    /\ i' = i + 1
    /\ UNCHANGED <<inputs, stdin_eof, config, pc, loopvars, stdout, result, src>>

\* The read error only ends this input.
LineErrSkipsInput ==
    /\ pc = "lines"
    /\ rest # <<>>
    /\ Head(rest).err
    /\ rest' = Tail(rest)
    /\ line_num' = line_num + 1
    /\ i' = i + 1
    /\ pc' = "open"
    /\ UNCHANGED <<inputs, stdin_eof, config, last_num, blank_appear, stdout, stderr,
                   result, src, attempts>>

\* line_result? on an Err: run returns it
LineErr ==
    /\ pc = "lines"
    /\ rest # <<>>
    /\ Head(rest).err
    /\ rest' = Tail(rest)
    /\ line_num' = line_num + 1
    /\ pc' = "done"
    /\ result' = "Err"
    /\ UNCHANGED <<inputs, stdin_eof, config, i, last_num, blank_appear, stdout, stderr,
                   src, attempts>>

\* squeeze_blank, an empty line, blank_appear already set: continue
LineSkip ==
    /\ pc = "lines"
    /\ rest # <<>>
    /\ ~Head(rest).err
    /\ config.squeeze_blank /\ Head(rest).text = <<>> /\ blank_appear
    /\ rest' = Tail(rest)
    /\ line_num' = line_num + 1
    /\ UNCHANGED <<inputs, stdin_eof, config, pc, i, last_num, blank_appear, stdout,
                   stderr, result, src, attempts>>

\* the rest of the loop body: the line is rewritten and printed
LineEmit ==
    /\ pc = "lines"
    /\ rest # <<>>
    /\ ~Head(rest).err
    /\ ~(config.squeeze_blank /\ Head(rest).text = <<>> /\ blank_appear)
    /\ LET line == Head(rest).text
           out == Emit(config, line_num, last_num, Transform(config, line))
       IN  /\ blank_appear' = IF config.squeeze_blank /\ line = <<>>
                              THEN TRUE ELSE blank_appear
           /\ stdout' = Append(stdout, out.text)
           /\ last_num' = out.last
           /\ src' = Append(src, [file |-> i,
                                  pos |-> Len(Stream(config.files[i])) - Len(rest) + 1,
                                  orig |-> line])
    /\ rest' = Tail(rest)
    /\ line_num' = line_num + 1
    /\ UNCHANGED <<inputs, stdin_eof, config, pc, i, stderr, result, attempts>>

\* file.lines() is exhausted: the files loop moves on
EndOfInput ==
    /\ pc = "lines"
    /\ rest = <<>>
    /\ stdin_eof' = (stdin_eof \/ config.files[i] = "-")
    /\ i' = i + 1
    /\ pc' = "open"
    /\ UNCHANGED <<inputs, config, loopvars, stdout, stderr, result, src, attempts>>

\* config.files is exhausted: Ok(())
ReturnOk ==
    /\ pc = "open"
    /\ i > Len(config.files)
    /\ pc' = "done"
    /\ result' = "Ok"
    /\ UNCHANGED <<inputs, stdin_eof, config, i, loopvars, stdout, stderr, src, attempts>>

Next ==
    \/ GetArgs
    \/ GetArgsConflict
    \/ OpenOk
    \/ OpenErr
    \/ LineErr
    \/ LineSkip
    \/ LineEmit
    \/ EndOfInput
    \/ ReturnOk

Spec == Init /\ [][Next]_vars

(***************************************************************************)
(* What the properties below read off the state.                           *)
(***************************************************************************)
Running == pc # "args" /\ result # "Usage"

\* the line results the f-th positional argument delivers when it is opened
Content(f) ==
    LET name == config.files[f]
    IN  IF name = "-"
        THEN IF \A g \in 1..(f - 1) : config.files[g] # "-" THEN stdin ELSE <<>>
        ELSE fs[name].items

\* the lines of stdout that came from the f-th positional argument
OutputOf(f) == {k \in 1..Len(src) : src[k].file = f}

\* the k-th line of stdout carries a number prefix
HasPrefix(k) ==
    \/ config.number_lines
    \/ config.number_nonblank_lines /\ stdout[k] # <<>>

\* the k-th line of stdout without its number prefix
Body(k) == IF HasPrefix(k) THEN SubSeq(stdout[k], 8, Len(stdout[k])) ELSE stdout[k]

RECURSIVE DecValue(_)
\* the number a decimal numeral denotes
DecValue(d) ==
    IF d = <<>> THEN 0 ELSE 10 * DecValue(SubSeq(d, 1, Len(d) - 1)) + (d[Len(d)] - 48)

TabCount(line) == Cardinality({k \in 1..Len(line) : line[k] = TAB})

\* the line as show_tabs and show_ends leave it
BeforeEscape(line) ==
    LET t == IF config.show_tabs THEN ShowTabs(line) ELSE line
    IN  IF config.show_ends THEN ShowEnds(t) ELSE t

(***************************************************************************)
(* C1: with squeeze-blank-runs, each maximal run of empty lines yields     *)
(* exactly one emitted line: an empty line is emitted iff it is the first  *)
(* line of the input or follows a non-empty line; every non-empty line is  *)
(* emitted.                                                                *)
(***************************************************************************)
C1_SqueezeEmitsFirstOfEachRun ==
    (pc = "lines" /\ config.squeeze_blank) =>
        LET items == Content(i)
            consumed == Len(items) - Len(rest)
            emitted == {src[k].pos : k \in OutputOf(i)}
        IN  \A j \in 1..consumed :
                IF items[j].text = <<>>
                THEN (j \in emitted) <=> (j = 1 \/ items[j - 1].text # <<>>)
                ELSE j \in emitted

(***************************************************************************)
(* C2: with number-nonblank-lines (and not number-all-lines), a line whose *)
(* original content is empty is printed as a bare empty line and does not  *)
(* advance the non-blank counter, whatever the other flags.                *)
(***************************************************************************)
C2_BlankLineBareUnderNumberNonblank ==
    (Running /\ config.number_nonblank_lines /\ ~config.number_lines) =>
        /\ \A k \in 1..Len(stdout) : src[k].orig = <<>> => stdout[k] = <<>>
        /\ pc = "lines" =>
              last_num = Cardinality({k \in OutputOf(i) : src[k].orig # <<>>})

(***************************************************************************)
(* C3: when an input failed stream acquisition, the finished run reports   *)
(* failure.                                                                *)
(***************************************************************************)
C3_AcquisitionFailureFailsRun ==
    (pc = "done" /\ Running /\ \E k \in 1..Len(attempts) : OpenError(attempts[k]) # "ok")
        => result = "Err"

(***************************************************************************)
(* C4: an input that fails to open gets exactly one diagnostic line        *)
(* "<identifier>: <error description>" and no output line; the inputs are  *)
(* attempted in configuration order and the failure does not stop the run: *)
(* a run that returns Ok has attempted every identifier and has emitted    *)
(* the lines of every identifier that opened, in input order.              *)
(***************************************************************************)
C4_OpenFailureIsReportedAndSkipped ==
    Running =>
        LET files == config.files
            n == Len(attempts)
            failed == SelectSeq(attempts, LAMBDA x : OpenError(x) # "ok")
        IN  /\ n <= Len(files)
            /\ attempts = SubSeq(files, 1, n)
            /\ Len(stderr) = Len(failed)
            /\ \A k \in 1..Len(stderr) :
                  stderr[k] = failed[k] \o ": " \o OpenError(failed[k])
            /\ \A k \in 1..Len(src) :
                  /\ src[k].file \in 1..n
                  /\ OpenError(files[src[k].file]) = "ok"
                  /\ src[k].pos \in 1..Len(Content(src[k].file))
                  /\ src[k].orig = Content(src[k].file)[src[k].pos].text
            /\ \A k, l \in 1..Len(src) :
                  k < l => \/ src[k].file < src[l].file
                           \/ src[k].file = src[l].file /\ src[k].pos < src[l].pos
            /\ (pc = "done" /\ result = "Ok") =>
                  /\ n = Len(files)
                  /\ \A f \in 1..n : OpenError(files[f]) = "ok" =>
                        \A j \in 1..Len(Content(f)) :
                            (~config.squeeze_blank \/ Content(f)[j].text # <<>>)
                                => \E k \in OutputOf(f) : src[k].pos = j

C4_Witness ==
    /\ pc = "done" /\ result = "Ok"
    /\ Len(config.files) = 2
    /\ OpenError(config.files[1]) # "ok"
    /\ stderr = <<"nofile: No such file or directory (os error 2)">>
    /\ stdout # <<>>

(***************************************************************************)
(* C5: an error reading a line of an opened stream ends the run at once    *)
(* with an error result: the step prints nothing, nothing happens after    *)
(* it, no line at or after the failing position is in the output and no    *)
(* later identifier has been opened or reported.                           *)
(***************************************************************************)
C5_AfterReadError ==
    result = "Err" =>
        LET failing == Len(Content(i)) - Len(rest)
        IN  /\ pc = "done"
            /\ Content(i)[failing].err
            /\ Len(attempts) = i
            /\ Len(stderr) < i
            /\ \A k \in 1..Len(src) :
                  /\ src[k].file <= i
                  /\ src[k].file = i => src[k].pos < failing

C5_ReadErrorStep ==
    /\ (pc = "lines" /\ rest # <<>> /\ Head(rest).err) =>
          /\ pc' = "done" /\ result' = "Err"
          /\ stdout' = stdout /\ stderr' = stderr /\ attempts' = attempts
    /\ pc # "done"

\* C5: the state after a read error and the step that takes it, together
C5_ReadErrorAbortsRun == [](C5_AfterReadError) /\ [][C5_ReadErrorStep]_vars

C5_Witness ==
    /\ result = "Err"
    /\ stdout # <<>>
    /\ rest # <<>>
    /\ i < Len(config.files)

(***************************************************************************)
(* C6: with number-all-lines, every emitted line starts with the 1-based   *)
(* position of the line in its own input, right-justified in 6 columns     *)
(* (wider when the numeral is longer) and followed by a tab and the        *)
(* transformed line; skipped lines use up their position, so the numbers   *)
(* of one input increase strictly.                                         *)
(***************************************************************************)
C6_NumberIsPositionInInput ==
    (Running /\ config.number_lines) =>
        /\ \A k \in 1..Len(stdout) :
              LET text == stdout[k]
                  width == IF src[k].pos < 1000000 THEN 6 ELSE Len(Digits(src[k].pos))
                  field == SubSeq(text, 1, width)
                  numeral == SelectSeq(field, LAMBDA c : c # SPACE)
              IN  /\ Len(text) >= width + 1
                  /\ text[width + 1] = TAB
                  /\ numeral # <<>>
                  /\ \A d \in 1..Len(numeral) : numeral[d] \in 48..57
                  /\ numeral[1] # 48
                  /\ field = [d \in 1..(width - Len(numeral)) |-> SPACE] \o numeral
                  /\ DecValue(numeral) = src[k].pos
                  /\ SubSeq(text, width + 2, Len(text)) = Transform(config, src[k].orig)
        /\ \A k, l \in 1..Len(stdout) :
              (k < l /\ src[k].file = src[l].file) =>
                  DecValue(SelectSeq(SubSeq(stdout[k], 1, 6), LAMBDA c : c # SPACE))
                    < DecValue(SelectSeq(SubSeq(stdout[l], 1, 6), LAMBDA c : c # SPACE))

\* numbers 1, 3 in the first input (line 2 squeezed away) and 1 again in the second
C6_Witness ==
    /\ config.number_lines /\ config.squeeze_blank
    /\ Len(stdout) >= 3
    /\ src[1].file = 1 /\ SubSeq(stdout[1], 1, 7) = <<32, 32, 32, 32, 32, 49, TAB>>
    /\ src[2].file = 1 /\ SubSeq(stdout[2], 1, 7) = <<32, 32, 32, 32, 32, 51, TAB>>
    /\ src[3].file = 2 /\ SubSeq(stdout[3], 1, 7) = <<32, 32, 32, 32, 32, 49, TAB>>

(***************************************************************************)
(* C7: with show-nonprinting, the printed line is the line left by tab     *)
(* visualization and the end marker with every character re-encoded on its *)
(* own: 0x01..0x1E as '^' and the character 0x40 higher, 0x7F as "^?",     *)
(* 0x80..0xFF as "M-" and the decimal numeral of the code point, anything  *)
(* else (0x00, 0x1F, 0x20..0x7E, above 0xFF) as itself.                    *)
(***************************************************************************)
C7_Caret(c) == <<CARET, c + 64>>
C7_Meta(c) ==
    <<77, 45>> \o (IF c >= 100 THEN <<48 + (c \div 100)>> ELSE <<>>)
               \o (IF c >= 10 THEN <<48 + ((c \div 10) % 10)>> ELSE <<>>)
               \o <<48 + (c % 10)>>
C7_Encoded(c) ==
    CASE c >= 1 /\ c <= 30 -> C7_Caret(c)
      [] c = 127 -> <<CARET, 63>>
      [] c >= 128 /\ c <= 255 -> C7_Meta(c)
      [] OTHER -> <<c>>

C8_TabKeptByNonprinting ==
    (Running /\ config.show_nonprinting /\ ~config.show_tabs) =>
        \A k \in 1..Len(stdout) : TabCount(Body(k)) = TabCount(src[k].orig)

(***************************************************************************)
(* C9: show-all gives the configuration that show-tabs, show-line-ends and *)
(* show-nonprinting together give, leaves numbering and squeezing as the   *)
(* other options set them, and so prints every line as the three rewrites  *)
(* together print it.                                                      *)
(***************************************************************************)
C9_ShowAllIsTabsEndsNonprinting ==
    (Running /\ "show_all" \in args.opts) =>
        /\ config = ConfigOf([args EXCEPT !.opts = (@ \ {"show_all"})
                                \cup {"show_tabs", "show_ends", "show_nonprinting"}])
        /\ config.show_tabs /\ config.show_ends /\ config.show_nonprinting
        /\ config.number_lines = ("number" \in args.opts)
        /\ config.number_nonblank_lines = ("number_nonblank" \in args.opts)
        /\ config.squeeze_blank = ("squeeze_blank" \in args.opts)
        /\ \A k \in 1..Len(stdout) :
              Body(k) = ShowNonprinting(ShowEnds(ShowTabs(src[k].orig)))

C9_Witness ==
    /\ args.opts = {"show_all"}
    /\ Len(stdout) >= 1
    /\ src[1].orig = <<65, TAB, 1>>
    /\ stdout[1] = <<65, 94, 73, 94, 65, 36>>

(***************************************************************************)
(* C10: the pipeline with two adjacent steps exchanged.                    *)
(***************************************************************************)
\* end marker before tab visualization
TransformEndsTabs(cfg, line) ==
    LET e == IF cfg.show_ends THEN ShowEnds(line) ELSE line
        t == IF cfg.show_tabs THEN ShowTabs(e) ELSE e
    IN  IF cfg.show_nonprinting THEN ShowNonprinting(t) ELSE t

\* non-printing escape before the end marker
TransformNonprintingEnds(cfg, line) ==
    LET t == IF cfg.show_tabs THEN ShowTabs(line) ELSE line
        v == IF cfg.show_nonprinting THEN ShowNonprinting(t) ELSE t
    IN  IF cfg.show_ends THEN ShowEnds(v) ELSE v

\* the squeeze check made after tab visualization: the emptiness it would see
EmptyAfterTabs(cfg, line) == (IF cfg.show_tabs THEN ShowTabs(line) ELSE line) = <<>>

\* numbering before the non-printing escape: the line printed
NumberThenEscape(cfg, n, last, line) ==
    LET t == IF cfg.show_tabs THEN ShowTabs(line) ELSE line
        e == IF cfg.show_ends THEN ShowEnds(t) ELSE t
        numbered == Emit(cfg, n, last, e).text
    IN  IF cfg.show_nonprinting THEN ShowNonprinting(numbered) ELSE numbered

Configs ==
    {ConfigOf([opts |-> o, files |-> <<>>]) :
        o \in {x \in SUBSET (Options \ {"ignored", "vE", "vT", "show_all"}) :
                  ~{"number", "number_nonblank"} \subseteq x}}

(* C10 as claimed: for each pair of adjacent steps some flags and some     *)
(* input line make the exchanged pipeline print something else (asked of   *)
(* the flags and lines the program can be started on).                     *)
C10_EveryAdjacentSwapChangesOutput ==
    pc = "args" =>
    /\ \E cfg \in Configs, line \in SeqsUpTo(Chars, MaxLen) :
          EmptyAfterTabs(cfg, line) # (line = <<>>)
    /\ \E cfg \in Configs, line \in SeqsUpTo(Chars, MaxLen) :
          TransformEndsTabs(cfg, line) # Transform(cfg, line)
    /\ \E cfg \in Configs, line \in SeqsUpTo(Chars, MaxLen) :
          TransformNonprintingEnds(cfg, line) # Transform(cfg, line)
    /\ \E cfg \in Configs, line \in SeqsUpTo(Chars, MaxLen) :
          NumberThenEscape(cfg, 0, 0, line) # Emit(cfg, 0, 0, Transform(cfg, line)).text

(* C10 as amended: exchanging the squeeze check with tab visualization,    *)
(* tab visualization with the end marker, or the end marker with the       *)
(* non-printing escape never changes what is printed; every printed line   *)
(* is what those exchanged pipelines print, and every line read is empty   *)
(* after tab visualization exactly when it is empty before it.             *)
C10_SwapsThatChangeNothing ==
    Running =>
        /\ \A k \in 1..Len(stdout) :
              /\ Body(k) = TransformEndsTabs(config, src[k].orig)
              /\ Body(k) = TransformNonprintingEnds(config, src[k].orig)
        /\ (pc = "lines" /\ rest # <<>> /\ ~Head(rest).err) =>
              (EmptyAfterTabs(config, Head(rest).text) <=> Head(rest).text = <<>>)

\* all three rewrites and numbering at work on a line with a tab; numbering
\* before the escape would have printed the tab of the prefix as ^I
C10_Witness ==
    /\ config.show_tabs /\ config.show_ends /\ config.show_nonprinting
    /\ config.number_lines
    /\ Len(stdout) = 1
    /\ src[1].orig = <<TAB, 1>>
    /\ stdout[1] = Format6(1) \o <<TAB, 94, 73, 94, 65, 36>>
    /\ stdout[1] # NumberThenEscape(config, 0, 0, src[1].orig)

====
